---- MODULE Spec2Model ----
(***************************************************************************)
(* streamlit-forum / streamlit-discourse: the exception-annotating context *)
(* managers forum() and discourse(), the query they build from the caught  *)
(* exception, the paginated search aggregator behind them and the three    *)
(* nested st.experimental_memo layers (_fetch, _fetch_search,              *)
(* _fetch_all_topic_pages), each with a time-to-live of _TTL seconds.      *)
(*                                                                         *)
(* The memos are process-wide: besides the script run that is followed     *)
(* step by step (the wrapper's locals, what it draws, what leaves it)      *)
(* there is a second caller of the memoized functions, the peer: the       *)
(* wrapper running in another session's thread or, in streamlit_discourse, *)
(* whose functions are public, a direct call of fetch / fetch_search.      *)
(* A step is the code between two waits on the network: requests.get       *)
(* blocks, and while it does the clock advances and the other caller runs. *)
(*                                                                         *)
(* A topic row is modelled by its id (the column drop_duplicates keys on); *)
(* the other columns travel with the row unchanged.  Time is the memo      *)
(* cache's clock in seconds.  The fields "fetched", "oldest" and "lag" are *)
(* history fields: the clock value at which a response arrived, and the    *)
(* greatest age a memo entry had when it was read.                         *)
(***************************************************************************)
EXTENDS Integers, Sequences, FiniteSets, TLC

VARIABLES
    variant,      \* which package the app imports: "forum" or "discourse"
    upstream,     \* the forum's dataset: query -> sequence of pages of topic ids
    now,          \* the clock of the memo caches, in seconds
    faults,       \* how many upstream requests have failed so far
    calls,        \* how many calls the script and the other caller have begun
    fetchCache,   \* memo of _fetch:                 <<q, page>> -> [at, val]
    searchCache,  \* memo of _fetch_search:          <<q, page>> -> [at, val]
    allCache,     \* memo of _fetch_all_topic_pages: q           -> [at, val]
    pc,           \* "idle", "loop" (in _fetch_all_topic_pages), "wait" (in requests.get), "done"
    exc,          \* the exception the guarded block raised
    top,          \* the wrapper's top argument
    opts,         \* the wrapper's criteria, sortby and status arguments
    query,        \* the query string built by _get_data / get_data
    page,         \* _fetch_all_topic_pages: page
    posts_list,   \* _fetch_all_topic_pages: posts_list
    requests,     \* history: the pages this call requested from the upstream
    oldest,       \* history: earliest arrival time among the responses this call used
    lag,          \* history: greatest age at which this call read a memo entry
    seenBefore,   \* history: an earlier call already got a table for this query
    cold,         \* history: no memo entry has answered a lookup of this call
    faulted,      \* history: the fetch of a page failed in this call
    agg,          \* outcome of _fetch_all_topic_pages: a table or a raised exception
    filtered_topics, \* the table after head(top): result in _get_data, filtered_topics in get_data
    result,       \* what _get_data / get_data returned
    rendered,     \* what the wrapper drew on the page
    surfaced,     \* what left the wrapper: an exception name, or "" when suppressed
    returned,     \* history: every <<query, table>> _fetch_all_topic_pages returned
    peer          \* the other caller: [pc, fn, q, page, posts, oldest, lag]

vars == <<variant, upstream, now, faults, calls, fetchCache, searchCache, allCache,
          pc, exc, top, opts, query, page, posts_list, requests, oldest, lag, seenBefore,
          cold, faulted, agg, filtered_topics, result, rendered, surfaced, returned,
          peer>>

----------------------------------------------------------------------------
(* Program constants *)

_BASE_URL == "https://discuss.streamlit.io"
_TTL == 3600
_ALLOWED_SORTS == <<"latest", "likes", "views", "latest_topic">>
_ALLOWED_STATUSES ==
    <<"open", "closed", "public", "archived", "noreplies", "single_user",
      "solved", "unsolved">>

(* Bounds of the explored model *)

TickStep == 2400      \* seconds the clock advances in one Tick
MaxTicks == 2         \* Spec: clock ticks
MaxFaults == 1        \* Spec: failed upstream requests
MaxCalls == 2         \* Spec: searches of the wrapper and calls of the other caller
MaxDirectPage == 1    \* Spec: largest page of a direct fetch / fetch_search call
PagesFaults == 1      \* SpecPages: failed upstream requests
MaxId == 2            \* SpecPages: topic ids are 1..MaxId
MaxRows == 4          \* SpecPages: topics of a dataset, over all its pages
MaxTop == 3           \* largest top argument
MaxNegTop == 2        \* most negative top argument is -MaxNegTop

----------------------------------------------------------------------------
(* Sequence helpers *)

Range(s) == {s[i] : i \in 1..Len(s)}

Min(a, b) == IF a <= b THEN a ELSE b

Max(a, b) == IF a >= b THEN a ELSE b

\* Python:  x in some_list
InList(x, list) == \E i \in 1..Len(list) : list[i] = x

----------------------------------------------------------------------------
(* Query construction: _get_data lines 86-104, get_data lines 206-217 *)

\* str(str_exception): the text Python's str() gives for the exception object.
StrException(e) == e.text

\* type(e).__name__
TypeName(e) == e.type

\* Mutant of BuildQuery: the status clause is appended before the order clause.
BuildQuery_StatusFirst(etype, str_exception, criteria, sortby, status) ==
    LET q0 == etype
        q1 == IF criteria = "narrow" THEN q0 \o ": " \o StrException(str_exception)
              ELSE q0
        q2 == IF InList(status, _ALLOWED_STATUSES) THEN q1 \o " status:" \o status
              ELSE q1
        q3 == IF InList(sortby, _ALLOWED_SORTS) THEN q2 \o " order:" \o sortby
              ELSE q2
    IN  q3

BuildQuery(etype, str_exception, criteria, sortby, status) ==
    LET q0 == etype
        q1 == IF criteria = "narrow" THEN q0 \o ": " \o StrException(str_exception)
              ELSE q0
        q2 == IF InList(sortby, _ALLOWED_SORTS) THEN q1 \o " order:" \o sortby
              ELSE q1
        q3 == IF InList(status, _ALLOWED_STATUSES) THEN q2 \o " status:" \o status
              ELSE q2
    IN  q3

----------------------------------------------------------------------------
(* st.experimental_memo(ttl=_TTL): a TTL cache keyed by the call's arguments. *)
(* An entry written at time at is served while t < at + _TTL; writing an     *)
(* entry drops the expired ones.  A call that raises writes nothing.  The    *)
(* lookup comes before the function body and the write after it: a call that *)
(* missed writes its own value over whatever was written meanwhile.          *)

\* Mutant of MemoHit: an entry never expires.
MemoHit_NoExpiry(cache, k, t) == k \in DOMAIN cache

MemoHit(cache, k, t) == k \in DOMAIN cache /\ t < cache[k].at + _TTL

MemoStore(cache, k, v, t) ==
    LET live == {x \in DOMAIN cache : t < cache[x].at + _TTL}
    IN  [x \in live \cup {k} |-> IF x = k THEN [at |-> t, val |-> v] ELSE cache[x]]

\* The memo key of _fetch("search.json", q=q, page=page) and of _fetch_search(q, page)
PageKey(q, p) == <<q, p>>

\* Mutant of QueryKey: the aggregate memo forgets which query it holds.
QueryKey_Shared(q) == ""

\* The memo key of _fetch_all_topic_pages(q)
QueryKey(q) == q

----------------------------------------------------------------------------
(* The search endpoint *)

\* GET /search.json?q=<q>&page=<p>: a topics array while pages last, then none.
UpstreamBody(q, p) ==
    IF p < Len(upstream[q])
    THEN [kind |-> "topics", rows |-> upstream[q][p + 1]]
    ELSE [kind |-> "notopics", rows |-> <<>>]

\* How requests.get ends: "ok" the body above, "badbody" a body that is not
\* JSON, "neterr" no response at all (requests.get raises).
Outcomes == {"ok", "badbody", "neterr"}

\* The outcomes that count as a failed request.
Faults == {"badbody", "neterr"}

\* How a memoized call gets its value: "memo" from a live entry, without waiting,
\* or else by one of the outcomes of the request it waited for.
Answers == {"memo"} \cup Outcomes

\* No response has arrived yet.
NoTime == 0 - 1

\* The earlier of two arrival times.
Older(old, f) == IF old = NoTime THEN f ELSE Min(old, f)

\* _fetch(path, **query), memoized.  With answer "memo" its live entry is the
\* value; otherwise the memo missed, requests.get was called and has now ended:
\* it raised, or the Response object is stored and returned.  A Response with
\* a body that is not JSON is a value like any other and is stored.
_fetch(fc, q, p, answer, t) ==
    IF answer = "memo"
    THEN [cache |-> fc, raised |-> FALSE, resp |-> fc[PageKey(q, p)].val,
          lag |-> t - fc[PageKey(q, p)].at]
    ELSE IF answer = "neterr"
    THEN [cache |-> fc, raised |-> TRUE,
          resp |-> [kind |-> "none", rows |-> <<>>, fetched |-> t], lag |-> 0]
    ELSE LET body == IF answer = "badbody"
                     THEN [kind |-> "badbody", rows |-> <<>>]
                     ELSE UpstreamBody(q, p)
             r == [kind |-> body.kind, rows |-> body.rows, fetched |-> t]
         IN  [cache |-> MemoStore(fc, PageKey(q, p), r, t), raised |-> FALSE,
              resp |-> r, lag |-> 0]

\* _fetch_search(q, page), memoized.  With answer "memo" its own live entry is
\* the value or, without one, the live entry of _fetch is parsed; otherwise both
\* memos missed and the request has now ended.  resp.json() raises on a body
\* that is not JSON; the value is None when the body has no topics key, else
\* the page as a table, and it is stored.
_fetch_search(fc, sc, q, p, answer, t) ==
    IF answer = "memo" /\ MemoHit(sc, PageKey(q, p), t)
    THEN LET e == sc[PageKey(q, p)]
         IN  [fetchCache |-> fc, searchCache |-> sc, raised |-> FALSE, error |-> "",
              val |-> [none |-> e.val.none, rows |-> e.val.rows,
                       fetched |-> e.val.fetched,
                       lag |-> Max(e.val.lag, t - e.at)]]
    ELSE LET f == _fetch(fc, q, p, answer, t)
             none == [none |-> TRUE, rows |-> <<>>, fetched |-> f.resp.fetched,
                      lag |-> f.lag]
         IN  IF f.raised
             THEN [fetchCache |-> f.cache, searchCache |-> sc, raised |-> TRUE,
                   error |-> "ConnectionError", val |-> none]
             ELSE IF f.resp.kind = "badbody"
             THEN [fetchCache |-> f.cache, searchCache |-> sc, raised |-> TRUE,
                   error |-> "JSONDecodeError", val |-> none]
             ELSE LET v == IF f.resp.kind = "notopics" THEN none
                           ELSE [none |-> FALSE, rows |-> f.resp.rows,
                                 fetched |-> f.resp.fetched, lag |-> f.lag]
                  IN  [fetchCache |-> f.cache,
                       searchCache |-> MemoStore(sc, PageKey(q, p), v, t),
                       raised |-> FALSE, error |-> "", val |-> v]

\* _fetch_search(q, page) has to wait for requests.get: neither its own memo
\* nor the memo of _fetch holds a live entry.
Awaits(fc, sc, q, p, t) ==
    ~MemoHit(sc, PageKey(q, p), t) /\ ~MemoHit(fc, PageKey(q, p), t)

----------------------------------------------------------------------------
(* Aggregation *)

\* pd.concat(posts_list): the pages one after the other, rows in page order.
RECURSIVE Concat(_)
Concat(pages) ==
    IF pages = <<>> THEN <<>> ELSE Head(pages) \o Concat(Tail(pages))

\* Mutant of drop_duplicates: keep="last", a row stays unless a later row has its id.
RECURSIVE drop_duplicates_KeepLast(_)
drop_duplicates_KeepLast(t) ==
    IF t = <<>> THEN <<>>
    ELSE IF Head(t) \in Range(Tail(t)) THEN drop_duplicates_KeepLast(Tail(t))
    ELSE <<Head(t)>> \o drop_duplicates_KeepLast(Tail(t))

\* table.drop_duplicates(subset=["id"]): a row stays unless an earlier row has its id.
RECURSIVE drop_duplicates(_)
drop_duplicates(t) ==
    IF t = <<>> THEN <<>>
    ELSE LET front == SubSeq(t, 1, Len(t) - 1)
             last == t[Len(t)]
         IN  IF last \in Range(front) THEN drop_duplicates(front)
             ELSE Append(drop_duplicates(front), last)

\* _get_search_results_as_table(table): copy, drop duplicates, parse the two
\* timestamps, project the columns, renumber the index.  Its memo is keyed by
\* the whole table, so a hit returns what the call would compute.
_get_search_results_as_table(table) == drop_duplicates(table)

\* Mutant of DataFrameHead: DataFrame.tail(n), the last n rows.
DataFrameHead_Tail(t, n) ==
    IF n >= 0 THEN SubSeq(t, Len(t) - Min(n, Len(t)) + 1, Len(t))
    ELSE IF Len(t) + n > 0 THEN SubSeq(t, 1 - n, Len(t)) ELSE <<>>

\* DataFrame.head(n): the first n rows; for negative n all but the last -n rows.
DataFrameHead(t, n) ==
    IF n >= 0 THEN SubSeq(t, 1, Min(n, Len(t)))
    ELSE IF Len(t) + n > 0 THEN SubSeq(t, 1, Len(t) + n) ELSE <<>>

NoAgg == [status |-> "none", rows |-> <<>>, error |-> ""]
AggOk(rows) == [status |-> "ok", rows |-> rows, error |-> ""]
AggRaised(error) == [status |-> "raised", rows |-> <<>>, error |-> error]

\* The tail of _fetch_all_topic_pages after the loop's break: pd.concat raises
\* ValueError on an empty list of pages.
AfterLoop(pages) ==
    IF pages = <<>> THEN AggRaised("ValueError")
    ELSE AggOk(_get_search_results_as_table(Concat(pages)))

\* Mutant of NextPage: the loop steps over a page.
NextPage_Skip(p) == p + 2

\* page += 1
NextPage(p) == p + 1

\* One turn of the while-loop of _fetch_all_topic_pages once _fetch_search has
\* its answer: the exception leaves the function, or the page is appended and
\* the loop goes on, or the loop breaks and the tail of the function runs and
\* its memo stores the table.
Turn(fc, sc, ac, q, pg, posts, old, lg, answer, t) ==
    LET s == _fetch_search(fc, sc, q, pg, answer, t)
        o == Older(old, s.val.fetched)
        l == Max(lg, s.val.lag)
    IN  IF s.raised
        THEN [exit |-> TRUE, failed |-> TRUE, fetchCache |-> s.fetchCache,
              searchCache |-> s.searchCache, allCache |-> ac, page |-> pg,
              posts_list |-> posts, oldest |-> old, lag |-> lg,
              agg |-> AggRaised(s.error)]
        ELSE IF s.val.none
        THEN LET a == AfterLoop(posts)
             IN  [exit |-> TRUE, failed |-> FALSE, fetchCache |-> s.fetchCache,
                  searchCache |-> s.searchCache,
                  allCache |-> IF a.status = "ok"
                               THEN MemoStore(ac, QueryKey(q),
                                              [rows |-> a.rows, oldest |-> o, lag |-> l], t)
                               ELSE ac,
                  page |-> pg, posts_list |-> posts, oldest |-> o, lag |-> l, agg |-> a]
        ELSE [exit |-> FALSE, failed |-> FALSE, fetchCache |-> s.fetchCache,
              searchCache |-> s.searchCache, allCache |-> ac, page |-> NextPage(pg),
              posts_list |-> Append(posts, s.val.rows), oldest |-> o, lag |-> l,
              agg |-> NoAgg]

----------------------------------------------------------------------------
(* _get_data / get_data after the query is built, and the two wrappers *)

Unset == [kind |-> "unset", rows |-> <<>>]
NoneValue == [kind |-> "None", rows |-> <<>>]
DeltaGenerator == [kind |-> "DeltaGenerator", rows |-> <<>>]
Table(rows) == [kind |-> "table", rows |-> rows]

\* Mutant of _get_data: no try/except around the fetch, the exception leaves.
_get_data_Uncaught(a, t) ==
    IF a.status = "raised"
    THEN [filtered_topics |-> Unset, result |-> [kind |-> "raised", rows |-> <<>>]]
    ELSE [filtered_topics |-> Table(DataFrameHead(a.rows, t)),
          result |-> Table(DataFrameHead(a.rows, t))]

\* streamlit_forum: try: result = _fetch_all_topic_pages(q=query) / except
\* Exception: return st.error(...) / result = result.head(top) / return result.
\* st.error returns a DeltaGenerator.
_get_data(a, t) ==
    IF a.status = "raised"
    THEN [filtered_topics |-> Unset, result |-> DeltaGenerator]
    ELSE [filtered_topics |-> Table(DataFrameHead(a.rows, t)),
          result |-> Table(DataFrameHead(a.rows, t))]

\* streamlit_discourse: the same try/except and head(top), then the table is
\* drawn inside get_data, which ends without a return statement: None.
get_data(a, t) ==
    IF a.status = "raised"
    THEN [filtered_topics |-> Unset, result |-> DeltaGenerator]
    ELSE [filtered_topics |-> Table(DataFrameHead(a.rows, t)), result |-> NoneValue]

TopicUrl(id) == _BASE_URL \o "/t/" \o ToString(id)

\* _format_result(result), and the for-loop of get_data: one link per row.
_format_result(rows) == [i \in 1..Len(rows) |-> TopicUrl(rows[i])]

NoTopics(v) ==
    "[streamlit-" \o v \o "] No topics found. Try setting criteria to 'broad'"

\* What the except-branch of forum() / discourse() draws, given the table
\* _get_data / get_data came to.
Rendered(v, e, ft) ==
    IF ft.kind # "table" THEN <<NoTopics(v)>>
    ELSE IF v = "forum"
    THEN <<"**" \o TypeName(e) \o "**: " \o StrException(e)>> \o _format_result(ft.rows)
    ELSE <<"##### Related Discourse Topics">> \o _format_result(ft.rows)

\* What leaves the wrapper.  forum(): _format_result subscripts what _get_data
\* returned, which raises TypeError on a DeltaGenerator; otherwise st.stop() ends
\* the script.  discourse(): the return value of get_data is dropped, raise e.
Surfaced(v, e, r) ==
    IF v = "forum"
    THEN IF r.kind # "table" THEN "TypeError" ELSE "StopException"
    ELSE TypeName(e)

----------------------------------------------------------------------------
(* Inputs *)

NoExc == [type |-> "", text |-> ""]
NoOpts == [criteria |-> "", sortby |-> "", status |-> ""]

ZeroDiv == [type |-> "ZeroDivisionError", text |-> "division by zero"]
NotFound == [type |-> "FileNotFoundError", text |-> "No such file: 'data.csv'"]
ValueErr == [type |-> "ValueError", text |-> "invalid literal for int() with base 10: 'foo'"]

Call(e, criteria, sortby, status) ==
    [e |-> e, criteria |-> criteria, sortby |-> sortby, status |-> status]

\* The wrapper calls Spec explores, each with the default top.
Calls ==
    { Call(ZeroDiv, "broad", "relevance", "any"),
      Call(NotFound, "broad", "relevance", "any") }

DefaultTop == 5

\* The wrapper calls SpecPages explores, each with every top of Tops.
PageCalls ==
    { Call(ZeroDiv, "broad", "relevance", "any"),
      Call(NotFound, "broad", "relevance", "any") }

\* The wrapper calls SpecQuery explores.
QueryCalls ==
    { Call(e, c, s, st) :
        e \in {ZeroDiv, NotFound, ValueErr},
        c \in {"broad", "narrow", "Narrow", "fuzzy"},
        s \in Range(_ALLOWED_SORTS) \cup {"relevance", "bogus"},
        st \in Range(_ALLOWED_STATUSES) \cup {"any", "bogus"} }

QueryOf(c) == BuildQuery(TypeName(c.e), c.e, c.criteria, c.sortby, c.status)

Queries == {QueryOf(c) : c \in Calls \cup PageCalls}

Tops == (0 - MaxNegTop)..MaxTop

\* Every dataset of n topics: a sequence of non-empty pages of ids of 1..MaxId.
RECURSIVE DatasetsOf(_)
DatasetsOf(n) ==
    IF n = 0 THEN {<<>>}
    ELSE UNION { { <<pg>> \o d : pg \in [1..m -> 1..MaxId], d \in DatasetsOf(n - m) } :
                 m \in 1..n }

Datasets == UNION {DatasetsOf(n) : n \in 0..MaxRows}

\* The datasets of Spec: the spec's example (ids 1,2,3 then 3,4) beside a query
\* without matches, and a query without matches beside a one-page one.
Upstreams ==
    LET broad == QueryOf(Call(ZeroDiv, "broad", "relevance", "any"))
    IN  { [q \in Queries |->
              IF q = broad THEN << <<1, 2, 3>>, <<3, 4>> >> ELSE <<>>],
          [q \in Queries |->
              IF q = broad THEN <<>> ELSE << <<6>> >>] }

\* The memoized functions another caller can call: the wrapper of another
\* session reaches the aggregator; the functions of streamlit_discourse are
\* public names, so a script can also call fetch_search and fetch itself.
PeerFns(v) ==
    IF v = "discourse" THEN {"fetch_all_topic_pages", "fetch_search", "fetch"}
    ELSE {"_fetch_all_topic_pages"}

\* The calls of the other caller: a function, its query and its page.
PeerCalls(v) ==
    { <<fn, q, p>> \in PeerFns(v) \X Queries \X (0..MaxDirectPage) :
          fn \in {"fetch_all_topic_pages", "_fetch_all_topic_pages"} => p = 0 }

IdlePeer ==
    [pc |-> "idle", fn |-> "", q |-> "", page |-> 0, posts |-> <<>>,
     oldest |-> NoTime, lag |-> 0]

----------------------------------------------------------------------------
(* Actions *)

\* The entry that is common to every initial state.
InitCall ==
    /\ now = 0
    /\ faults = 0
    /\ calls = 0
    /\ fetchCache = <<>>
    /\ searchCache = <<>>
    /\ allCache = <<>>
    /\ pc = "idle"
    /\ exc = NoExc
    /\ top = 0
    /\ opts = NoOpts
    /\ query = ""
    /\ page = 0
    /\ posts_list = <<>>
    /\ requests = <<>>
    /\ oldest = NoTime
    /\ lag = 0
    /\ seenBefore = FALSE
    /\ cold = FALSE
    /\ faulted = FALSE
    /\ agg = NoAgg
    /\ filtered_topics = Unset
    /\ result = Unset
    /\ rendered = <<>>
    /\ surfaced = ""
    /\ returned = {}
    /\ peer = IdlePeer

Init ==
    /\ variant \in {"forum", "discourse"}
    /\ upstream \in Upstreams
    /\ InitCall

\* SpecPages: one dataset from Datasets, the same for every query.
InitPages ==
    /\ variant \in {"forum", "discourse"}
    /\ upstream \in {[q \in Queries |-> d] : d \in Datasets}
    /\ InitCall

\* The end of the except-branch: what _get_data / get_data comes to, what is
\* drawn, what leaves the wrapper.
Complete(a, old, lg) ==
    LET g == IF variant = "forum" THEN _get_data(a, top') ELSE get_data(a, top')
    IN  /\ pc' = "done"
        /\ agg' = a
        /\ oldest' = old
        /\ lag' = lg
        /\ filtered_topics' = g.filtered_topics
        /\ result' = g.result
        /\ rendered' = Rendered(variant, exc', g.filtered_topics)
        /\ surfaced' = Surfaced(variant, exc', g.result)
        /\ returned' = IF a.status = "ok" THEN returned \cup {<<query', a.rows>>}
                       ELSE returned

\* The guarded block raises e inside `with forum(top, criteria, sortby, status)`.
\* discourse() catches FileNotFoundError in its inner try and only warns.
\* Otherwise the except-branch builds the query and calls _fetch_all_topic_pages,
\* which its memo answers at once or which starts paging.
Raise(e, t, criteria, sortby, status, maxCalls) ==
    /\ pc = "idle"
    /\ calls < maxCalls
    /\ calls' = calls + 1
    /\ exc' = e
    /\ top' = t
    /\ opts' = [criteria |-> criteria, sortby |-> sortby, status |-> status]
    /\ UNCHANGED <<variant, upstream, now, faults, fetchCache, searchCache, allCache,
                   peer>>
    /\ IF variant = "discourse" /\ TypeName(e) = "FileNotFoundError"
       THEN /\ pc' = "done"
            /\ rendered' = <<"Unable to display code. " \o StrException(e)>>
            /\ surfaced' = ""
            /\ UNCHANGED <<query, page, posts_list, requests, oldest, lag, seenBefore,
                           cold, faulted, agg, filtered_topics, result, returned>>
       ELSE LET q == BuildQuery(TypeName(e), e, criteria, sortby, status)
            IN  /\ query' = q
                /\ seenBefore' = (\E r \in returned : r[1] = q)
                /\ cold' = ~MemoHit(allCache, QueryKey(q), now)
                /\ UNCHANGED <<page, posts_list, requests, faulted>>
                /\ IF MemoHit(allCache, QueryKey(q), now)
                   THEN Complete(AggOk(allCache[QueryKey(q)].val.rows),
                                 allCache[QueryKey(q)].val.oldest,
                                 Max(allCache[QueryKey(q)].val.lag,
                                     now - allCache[QueryKey(q)].at))
                   ELSE /\ pc' = "loop"
                        /\ UNCHANGED <<oldest, lag, agg, filtered_topics, result,
                                       rendered, surfaced, returned>>

\* The guarded block ends without an exception: the wrapper does nothing.
NoRaise ==
    /\ pc = "idle"
    /\ pc' = "done"
    /\ UNCHANGED <<variant, upstream, now, faults, calls, fetchCache, searchCache, allCache,
                   exc, top, opts, query, page, posts_list, requests, oldest, lag,
                   seenBefore, cold, faulted, agg, filtered_topics, result, rendered,
                   surfaced, returned, peer>>

\* _fetch_search(q, page) finds no live entry in its memo nor in _fetch's:
\* requests.get is called and blocks.
SendRequest ==
    /\ pc = "loop"
    /\ Awaits(fetchCache, searchCache, query, page, now)
    /\ pc' = "wait"
    /\ requests' = Append(requests, page)
    /\ UNCHANGED <<variant, upstream, now, faults, calls, fetchCache, searchCache, allCache,
                   exc, top, opts, query, page, posts_list, oldest, lag, seenBefore,
                   cold, faulted, agg, filtered_topics, result, rendered, surfaced,
                   returned, peer>>

\* One turn of the while-loop of _fetch_all_topic_pages, answered by a memo or
\* by the end of the request it waited for, and on the loop's exit (break or
\* exception) the rest of the except-branch.
FetchPage(answer, maxFaults) ==
    /\ \/ answer = "memo" /\ pc = "loop"
                          /\ ~Awaits(fetchCache, searchCache, query, page, now)
       \/ answer \in Outcomes /\ pc = "wait"
    /\ answer \in Faults => faults < maxFaults
    /\ faults' = IF answer \in Faults THEN faults + 1 ELSE faults
    /\ \E r \in {Turn(fetchCache, searchCache, allCache, query, page, posts_list,
                       oldest, lag, answer, now)} :
           /\ fetchCache' = r.fetchCache
           /\ searchCache' = r.searchCache
           /\ allCache' = r.allCache
           /\ cold' = (cold /\ answer # "memo")
           /\ faulted' = (faulted \/ r.failed)
           /\ UNCHANGED <<variant, upstream, now, calls, exc, top, opts, query, requests,
                          seenBefore, peer>>
           /\ IF r.exit
              THEN /\ UNCHANGED <<page, posts_list>>
                   /\ Complete(r.agg, r.oldest, r.lag)
              ELSE /\ pc' = "loop"
                   /\ page' = r.page
                   /\ posts_list' = r.posts_list
                   /\ oldest' = r.oldest
                   /\ lag' = r.lag
                   /\ UNCHANGED <<agg, filtered_topics, result, rendered, surfaced,
                                  returned>>

\* The memo clock advances: between script runs and while requests.get blocks,
\* in the script's call or in the other caller's.  The state "done" is the
\* instant at which the wrapper has delivered, so the clock is read there
\* before it moves on.
Tick(maxTicks) ==
    /\ pc \in {"idle", "wait"} \/ (pc = "loop" /\ peer.pc = "wait")
    /\ now < maxTicks * TickStep
    /\ now' = now + TickStep
    /\ UNCHANGED <<variant, upstream, faults, calls, fetchCache, searchCache, allCache, pc, exc,
                   top, opts, query, page, posts_list, requests, oldest, lag, seenBefore,
                   cold, faulted, agg, filtered_topics, result, rendered, surfaced,
                   returned, peer>>

\* The script runs again; the memo caches outlive the run.
Rerun ==
    /\ pc = "done"
    /\ pc' = "idle"
    /\ exc' = NoExc
    /\ top' = 0
    /\ opts' = NoOpts
    /\ query' = ""
    /\ page' = 0
    /\ posts_list' = <<>>
    /\ requests' = <<>>
    /\ oldest' = NoTime
    /\ lag' = 0
    /\ seenBefore' = FALSE
    /\ cold' = FALSE
    /\ faulted' = FALSE
    /\ agg' = NoAgg
    /\ filtered_topics' = Unset
    /\ result' = Unset
    /\ rendered' = <<>>
    /\ surfaced' = ""
    /\ UNCHANGED <<variant, upstream, now, faults, calls, fetchCache, searchCache,
                   allCache, returned, peer>>

\* The other caller calls one of the memoized functions.  (A call of the
\* aggregator that its memo answers changes nothing and is left out.)
PeerCall(fn, q, p, maxCalls) ==
    /\ peer.pc = "idle"
    /\ calls < maxCalls
    /\ <<fn, q, p>> \in PeerCalls(variant)
    /\ fn \in {"fetch_all_topic_pages", "_fetch_all_topic_pages"} =>
           ~MemoHit(allCache, QueryKey(q), now)
    /\ calls' = calls + 1
    /\ peer' = [pc |-> "loop", fn |-> fn, q |-> q, page |-> p, posts |-> <<>>,
                oldest |-> NoTime, lag |-> 0]
    /\ UNCHANGED <<variant, upstream, now, faults, fetchCache, searchCache, allCache,
                   pc, exc, top, opts, query, page, posts_list, requests, oldest, lag,
                   seenBefore, cold, faulted, agg, filtered_topics, result, rendered,
                   surfaced, returned>>

\* The other caller's call has to wait for requests.get.
PeerAwaits ==
    IF peer.fn = "fetch"
    THEN ~MemoHit(fetchCache, PageKey(peer.q, peer.page), now)
    ELSE Awaits(fetchCache, searchCache, peer.q, peer.page, now)

\* The other caller's requests.get is called and blocks.
PeerSendRequest ==
    /\ peer.pc = "loop"
    /\ PeerAwaits
    /\ peer' = [peer EXCEPT !.pc = "wait"]
    /\ UNCHANGED <<variant, upstream, now, faults, calls, fetchCache, searchCache, allCache,
                   pc, exc, top, opts, query, page, posts_list, requests, oldest, lag,
                   seenBefore, cold, faulted, agg, filtered_topics, result, rendered,
                   surfaced, returned>>

\* The other caller's call gets its answer: fetch and fetch_search end with it,
\* the aggregator takes one turn of its loop.
PeerFetchPage(answer, maxFaults) ==
    /\ \/ answer = "memo" /\ peer.pc = "loop" /\ ~PeerAwaits
       \/ answer \in Outcomes /\ peer.pc = "wait"
    /\ answer \in Faults => faults < maxFaults
    /\ faults' = IF answer \in Faults THEN faults + 1 ELSE faults
    /\ UNCHANGED <<variant, upstream, now, calls, pc, exc, top, opts, query, page,
                   posts_list, requests, oldest, lag, seenBefore, cold, faulted, agg,
                   filtered_topics, result, rendered, surfaced>>
    /\ IF peer.fn = "fetch"
       THEN /\ fetchCache' = _fetch(fetchCache, peer.q, peer.page, answer, now).cache
            /\ peer' = IdlePeer
            /\ UNCHANGED <<searchCache, allCache, returned>>
       ELSE IF peer.fn = "fetch_search"
       THEN \E s \in {_fetch_search(fetchCache, searchCache, peer.q, peer.page,
                                    answer, now)} :
                /\ fetchCache' = s.fetchCache
                /\ searchCache' = s.searchCache
                /\ peer' = IdlePeer
                /\ UNCHANGED <<allCache, returned>>
       ELSE \E r \in {Turn(fetchCache, searchCache, allCache, peer.q, peer.page,
                            peer.posts, peer.oldest, peer.lag, answer, now)} :
                /\ fetchCache' = r.fetchCache
                /\ searchCache' = r.searchCache
                /\ allCache' = r.allCache
                /\ returned' = IF r.agg.status = "ok"
                               THEN returned \cup {<<peer.q, r.agg.rows>>}
                               ELSE returned
                /\ peer' = IF r.exit THEN IdlePeer
                           ELSE [peer EXCEPT !.pc = "loop", !.page = r.page,
                                             !.posts = r.posts_list,
                                             !.oldest = r.oldest, !.lag = r.lag]

Next ==
    \/ \E c \in Calls : Raise(c.e, DefaultTop, c.criteria, c.sortby, c.status, MaxCalls)
    \/ NoRaise
    \/ SendRequest
    \/ \E a \in Answers : FetchPage(a, MaxFaults)
    \/ Tick(MaxTicks)
    \/ Rerun
    \/ \E c \in PeerCalls(variant) : PeerCall(c[1], c[2], c[3], MaxCalls)
    \/ PeerSendRequest
    \/ \E a \in Answers : PeerFetchPage(a, MaxFaults)

Spec == Init /\ [][Next]_vars

\* SpecPages: one run of the script from empty memos, over every dataset.
NextPages ==
    \/ \E c \in PageCalls, t \in Tops :
           Raise(c.e, t, c.criteria, c.sortby, c.status, MaxCalls)
    \/ NoRaise
    \/ SendRequest
    \/ \E a \in Outcomes : FetchPage(a, PagesFaults)

SpecPages == InitPages /\ [][NextPages]_vars

\* SpecQuery: the query of every wrapper call of QueryCalls, from a fresh start.
NextQuery ==
    \E c \in QueryCalls : Raise(c.e, DefaultTop, c.criteria, c.sortby, c.status, MaxCalls)

SpecQuery == Init /\ [][NextQuery]_vars

----------------------------------------------------------------------------
(* Claims *)

\* What the claims say of a query's dataset, stated without the aggregator.
Places(q) ==
    UNION {{<<p, i>> : i \in 1..Len(upstream[q][p])} : p \in 1..Len(upstream[q])}
Occurrences(q, id) == {a \in Places(q) : upstream[q][a[1]][a[2]] = id}
TopicIds(q) == {upstream[q][a[1]][a[2]] : a \in Places(q)}
Before(a, b) == a[1] < b[1] \/ (a[1] = b[1] /\ a[2] < b[2])
FirstOccurrence(q, id) ==
    CHOOSE a \in Occurrences(q, id) : \A b \in Occurrences(q, id) : a = b \/ Before(a, b)
UpTo(n) == [i \in 1..n |-> i - 1]
Searching == pc \in {"loop", "wait"} \/ (pc = "done" /\ agg.status # "none")

\* C1: the query built by _get_data / get_data is the type name, then ": " and the
\* message exactly when criteria is "narrow", then " order:<sort>" exactly when
\* sort is latest, likes, views or latest_topic, then " status:<status>" exactly
\* when status is one of the eight statuses, in that order; every other value
\* appends nothing, and a query is built for every input.
C1_QueryShape ==
    LET narrow == IF opts.criteria = "narrow" THEN ": " \o exc.text ELSE ""
        order == IF opts.sortby \in {"latest", "likes", "views", "latest_topic"}
                 THEN " order:" \o opts.sortby ELSE ""
        stat == IF opts.status \in {"open", "closed", "public", "archived",
                                    "noreplies", "single_user", "solved", "unsolved"}
                THEN " status:" \o opts.status ELSE ""
        swallowed == variant = "discourse" /\ exc.type = "FileNotFoundError"
    IN  (pc # "idle" /\ exc # NoExc /\ ~swallowed) =>
            /\ Searching
            /\ query = exc.type \o narrow \o order \o stat

C1_Witness ==
    /\ pc = "loop"
    /\ exc = ZeroDiv
    /\ opts = [criteria |-> "narrow", sortby |-> "likes", status |-> "solved"]
    /\ query = "ZeroDivisionError: division by zero order:likes status:solved"

\* C2: the table _fetch_all_topic_pages returns holds every topic id of the pages
\* exactly once, ordered by first occurrence in the pages taken in arrival order.
C2_FirstOccurrenceOrder ==
    (pc = "done" /\ agg.status = "ok") =>
        /\ Range(agg.rows) = TopicIds(query)
        /\ Len(agg.rows) = Cardinality(TopicIds(query))
        /\ \A i, j \in 1..Len(agg.rows) :
              i < j => Before(FirstOccurrence(query, agg.rows[i]),
                              FirstOccurrence(query, agg.rows[j]))

C2_Witness ==
    /\ pc = "done"
    /\ agg.status = "ok"
    /\ upstream[query] = << <<2, 2>>, <<1, 2>> >>
    /\ agg.rows = <<2, 1>>

\* C3: for a positive top the ResultSet _get_data / get_data truncates to has
\* min(top, number of unique topic ids) rows, never more than top, and is a
\* prefix of the de-duplicated table; _get_data returns it, get_data draws it.
C3_Truncation ==
    (pc = "done" /\ filtered_topics.kind = "table" /\ top > 0) =>
        /\ Len(filtered_topics.rows) = Min(top, Cardinality(TopicIds(query)))
        /\ Len(filtered_topics.rows) <= top
        /\ filtered_topics.rows = SubSeq(agg.rows, 1, Len(filtered_topics.rows))
        /\ variant = "forum" => result = filtered_topics
        /\ variant = "discourse" =>
               rendered = <<"##### Related Discourse Topics">>
                              \o _format_result(filtered_topics.rows)

C3_Witness ==
    /\ pc = "done"
    /\ variant = "forum"
    /\ result.kind = "table"
    /\ top = 1
    /\ agg.rows = <<2, 1>>
    /\ result.rows = <<2>>

\* C4: when page 0 has no topics key, _fetch_all_topic_pages yields an empty table
\* and raises nothing; zero matches does not come out of the failure path.
C4_EmptyFirstPageIsEmptyTable ==
    (pc = "done" /\ agg.status # "none" /\ ~faulted /\ upstream[query] = <<>>) =>
        /\ agg = AggOk(<<>>)
        /\ filtered_topics = Table(<<>>)

\* C5: for every top <= 0 the ResultSet of _get_data / get_data after truncation
\* is empty.
C5_NonPositiveTopIsEmpty ==
    (pc = "done" /\ filtered_topics.kind = "table" /\ top <= 0) =>
        filtered_topics.rows = <<>>

\* C6: when the fetch of a page fails (no response, or a body that is not JSON),
\* _get_data / get_data raises nothing and returns the no-results outcome, with
\* none of the pages fetched before the failure in it.
C6_FetchFailureAbsorbed ==
    (pc = "done" /\ agg.status = "raised"
        /\ agg.error \in {"ConnectionError", "JSONDecodeError"}) =>
        /\ result = DeltaGenerator
        /\ filtered_topics = Unset
        /\ rendered = <<NoTopics(variant)>>

C6_Witness ==
    /\ pc = "done"
    /\ faulted
    /\ agg.error = "ConnectionError"
    /\ posts_list = << <<1, 2, 3>> >>
    /\ result.kind = "DeltaGenerator"

\* C7: when the guarded block raises E, then for every outcome of the search
\* (results, zero matches, fetch failure) nothing but E leaves the wrapper: it
\* re-raises E or stops the script.
C7_OnlyOriginalSurfaces ==
    (pc = "done" /\ exc # NoExc /\ agg.status # "none") =>
        surfaced \in {exc.type, "StopException"}

\* What _fetch_all_topic_pages comes to for a query when no memo answers and no
\* request fails: the pages of the dataset are appended in order, the loop
\* breaks on the first page without topics and the tail of the function runs,
\* raising ValueError when there was no page.
Uncached(q) == AfterLoop(upstream[q])

\* C8: for a fixed dataset every call of _fetch_all_topic_pages with the same query
\* returns the same table, whoever the caller: answered from the memo, from
\* cached pages or after a re-fetch, it is the table a call without memos
\* returns (and a query for which that call raises never gets a table).
C8_Idempotent ==
    /\ \A a, b \in returned : a[1] = b[1] => a[2] = b[2]
    /\ \A a \in returned : Uncached(a[1]) = AggOk(a[2])

C8_Witness ==
    /\ pc = "done"
    /\ agg.status = "ok"
    /\ seenBefore
    /\ requests = <<0, 1, 2>>

\* The requests of a call that no memo has answered, at each point of the call.
C9_Requests ==
    LET k == Len(upstream[query])
    IN  /\ (cold /\ pc = "loop") =>
              /\ page <= k
              /\ requests = UpTo(page)
        /\ (cold /\ pc = "wait") =>
              /\ page <= k
              /\ requests = UpTo(page + 1)
        /\ (cold /\ pc = "done" /\ agg.status # "none") =>
              /\ ~faulted => requests = UpTo(k + 1)
              /\ faulted => \E n \in 1..(k + 1) : requests = UpTo(n)

\* The call has taken a step.
C9_Stepped == <<pc, page, requests, cold>>' # <<pc, page, requests, cold>>

\* C9: on a cold cache (no memo answers a lookup of the call)
\* _fetch_all_topic_pages requests pages 0, 1, ..., k in that order, once each,
\* where k is the first page without topics; it asks for page n + 1 only after
\* page n came with topics, never past k, and then ends: every turn of the loop
\* moves to the next page or leaves the loop, and page never passes k (a failed
\* request ends the call earlier).
C9_SequentialPaging ==
    /\ []C9_Requests
    /\ [][(cold /\ pc = "loop" /\ C9_Stepped) =>
             \/ ~cold' /\ requests' = requests
             \/ pc' = "wait" /\ page' = page /\ requests' = Append(requests, page)]_vars
    /\ [][(cold /\ pc = "wait" /\ C9_Stepped) =>
             /\ requests' = requests
             /\ \/ pc' = "done"
                \/ pc' = "loop" /\ page' = page + 1
                                /\ UpstreamBody(query, page).kind = "topics"]_vars

C9_Witness ==
    /\ cold
    /\ pc = "done"
    /\ ~faulted
    /\ Len(upstream[query]) = 2
    /\ requests = <<0, 1, 2>>

\* C10, as claimed: every table handed back at time t is built only from responses
\* fetched at most one TTL before t.
C10_FreshWithinOneTTL ==
    (pc = "done" /\ agg.status = "ok") => now - oldest <= _TTL

\* C10, amended: every table handed back comes from memo entries that were each
\* written less than one TTL before they were read: the aggregate entry when
\* it is served, the page entries when the aggregate was built, the response
\* entries when their page was parsed.
C10_EachLayerWithinTTL ==
    (pc = "done" /\ agg.status = "ok") =>
        /\ lag < _TTL
        /\ oldest # NoTime
        /\ oldest <= now

C10_Witness ==
    /\ pc = "done"
    /\ agg.status = "ok"
    /\ requests = <<>>
    /\ lag > 0
    /\ now - oldest > _TTL

====
